---- MODULE Spec2Model ----
(***************************************************************************)
(* Model of torch/_inductor/autotune_process.py: TuningProcess (one child  *)
(* process with a request and a response queue) and TuningProcessPool (a   *)
(* queue of idle TuningProcesses and a ThreadPoolExecutor whose threads    *)
(* run target()).                                                          *)
(*                                                                         *)
(* Processes of the model: the caller thread (initialize / benchmark /     *)
(* terminate of the pool), one executor work item per choice of a batch,   *)
(* every child process ever created, and the environment (a child can be   *)
(* killed, a benchmark can raise or hang, process.start() can fail).       *)
(***************************************************************************)
EXTENDS Integers, Sequences, FiniteSets, TLC

\* ---------------------------------------------------------------- bounds
MaxDevices == 2      \* largest torch.cuda.device_count() explored
NumTasks   == 2      \* number of choices in one benchmark() batch
MaxSpawn   == 4      \* number of Process objects ever created

\* ------------------------------------------------------------- constants
NoneHandle == 0          \* a field of TuningProcess that is None
NoneDevice == -1         \* the placeholder device of get_device_list()
INF        == 1000000    \* float("inf")

Pids      == 1..MaxSpawn
WorkerIds == 1..MaxDevices
Tasks     == 1..NumTasks

VARIABLES
    \* TuningProcessPool
    processes,      \* [none, queue]: self.processes (None or queue.Queue)
    executor,       \* self.executor: 0 is None, else max_workers
    devices,        \* the list get_device_list() returned to initialize()
    \* TuningProcess objects of the current pool, by position in `devices`
    workers,        \* [device, process, request_queue, response_queue]
    \* child processes and their multiprocessing queues, by Process object
    child,          \* [state, cur]
    request_q,      \* messages put on a request queue and not yet taken
    response_q,     \* messages put on a response queue and not yet taken
    nextPid,        \* Process objects created so far, plus one
    \* the caller thread
    callerPc, callerIdx, lastCall, results,
    \* executor work items, one per choice
    pc, held, ret,
    \* history
    ponged,         \* children that have answered a Ping
    fault,          \* per choice: how its child died while serving it
    sent,           \* per choice: times its request was put on a queue
    otherFault,     \* a fault other than a child dying while serving
    genStart,       \* nextPid when the current self.processes was created
    lastInf,        \* per worker: its last dispatch returned INF
    \* what get_device_list() reads
    autotune_multi_device,   \* config.autotune_multi_device
    device_count,            \* torch.cuda.device_count()
    environ,                 \* os.environ: CUDA_VISIBLE_DEVICES, or unset
    \* interpreter exit
    EXIT_HANDLER_REGISTERED, \* the module global
    atexit_handlers,         \* callbacks given to atexit.register()
    parent                   \* "running", "exiting" (in the callback), "exited"

poolVars   == <<processes, executor, devices, workers>>
childVars  == <<child, request_q, response_q, nextPid>>
callerVars == <<callerPc, callerIdx, lastCall, results>>
taskVars   == <<pc, held, ret>>
histVars   == <<ponged, fault, sent, otherFault, genStart, lastInf>>
envVars    == <<autotune_multi_device, device_count, environ>>
exitVars   == <<EXIT_HANDLER_REGISTERED, atexit_handlers, parent>>
vars == <<poolVars, childVars, callerVars, taskVars, histVars, envVars,
          exitVars>>

\* ------------------------------------------------------------- messages
Msg(kind, val) == [kind |-> kind, val |-> val]
Ping     == Msg("Ping", 0)
Pong     == Msg("Pong", 0)
StopMsg  == Msg("None", 0)
NoMsg    == Msg("-", 0)

\* choice.bmreq as put on the wire: a BenchmarkRequest, or an object of
\* another type
Bmreq(kind, t) == Msg(kind, t)
BmreqKinds == {"BenchmarkRequest", "Other"}

\* BenchmarkRequest.benchmark(): the latency do_bench measured for choice t
Measured(t) == t

\* the value target() gets from process.get()
ValueOf(msg) == IF msg.kind = "Result" THEN Measured(msg.val) ELSE 0


\* ------------------------------------------------- TuningProcess (parent)
NewWorker(device) ==
    [device |-> device, process |-> NoneHandle,
     request_queue |-> NoneHandle, response_queue |-> NoneHandle]

\* TuningProcess.valid()
valid(p) ==
    /\ p.process # NoneHandle
    /\ p.request_queue # NoneHandle
    /\ p.response_queue # NoneHandle

\* faulty variant: a clear() that keeps the handles
ClearNothing(p) == p

\* TuningProcess.clear()
clear(p) ==
    [p EXCEPT !.process = NoneHandle, !.request_queue = NoneHandle,
              !.response_queue = NoneHandle]

\* faulty variant: an initialize() without the valid() test
AlwaysSpawns(p) == TRUE

\* TuningProcess.initialize() creates a Process only when not valid()
NeedsSpawn(p) == ~valid(p)

\* the fields initialize() assigns: both queues and the process are the
\* ones created for Process object pid
Spawned(p, pid) ==
    [p EXCEPT !.process = pid, !.request_queue = pid, !.response_queue = pid]

\* faulty variant: a get() that never sees an exit code
ExitCodeNeverSet(pid) == TRUE

\* faulty variant: a get() that takes every timed-out poll for a crash
TimeoutIsCrash(pid) == FALSE

\* Process.exitcode is None: the child has not exited (a Process whose
\* start() failed has no exit code either)
ExitCodeIsNone(pid) == child[pid].state \notin {"exited", "reaped"}

Live(pid) == child[pid].state \in {"waiting", "running", "hung"}

\* ------------------------------------------------------ TuningProcessPool
\* faulty variant: a get() that leaves the item in the queue
QueuePeek(q) == [item |-> Head(q), rest |-> q]

\* queue.Queue.get(): the item taken and the queue that is left
QueueGet(q) == [item |-> Head(q), rest |-> Tail(q)]

\* list(range(count))
range(count) == [i \in 1..count |-> i - 1]

\* os.environ without CUDA_VISIBLE_DEVICES, and with it: the value is kept
\* as the fields that split(",") cuts it into
Unset == [set |-> FALSE, fields |-> <<>>]
Visible(fields) == [set |-> TRUE, fields |-> fields]

\* the fields explored: decimal literals (one with a blank, which int()
\* accepts), a field that is no number, and the empty field of "" or "0,"
Fields == {"0", "1", "7", " 1", "x", ""}

\* int(d) returns for these fields and raises ValueError for the others
IsIntLiteral(d) == d \in {"0", "1", "7", " 1"}

int(d) == CASE d = "0" -> 0
            [] d = "1" -> 1
            [] d = " 1" -> 1
            [] d = "7" -> 7

\* faulty variant: a get_device_list() that does not look at the environment
DeviceListIgnoresEnv(multi, env, count) ==
    IF ~multi THEN [raises |-> FALSE, value |-> <<NoneDevice>>]
              ELSE [raises |-> FALSE, value |-> range(count)]

\* TuningProcessPool.get_device_list(): the list returned, or raises
\* (ValueError of int(), AssertionError of the length assert)
get_device_list(multi, env, count) ==
    IF ~multi
      THEN [raises |-> FALSE, value |-> <<NoneDevice>>]
      ELSE IF env.set
        THEN IF \E i \in DOMAIN env.fields : ~IsIntLiteral(env.fields[i])
               THEN [raises |-> TRUE, value |-> <<>>]
               ELSE IF ~(Len(env.fields) <= count)
                 THEN [raises |-> TRUE, value |-> <<>>]
                 ELSE [raises |-> FALSE,
                       value |-> [i \in DOMAIN env.fields |-> int(env.fields[i])]]
        ELSE [raises |-> FALSE, value |-> range(count)]

\* faulty variant: a wait loop that skips the first worker
HandshakeSkipsFirst(q) == Tail(q)

\* the workers `for p in self.processes.queue` of initialize() waits for
HandshakeWorkers(q) == q

\* faulty variant: a target() that lets queue.Empty propagate
TargetReraises == [raises |-> TRUE, value |-> INF]

\* what target() does when process.get() raises queue.Empty
TargetOnEmpty == [raises |-> FALSE, value |-> INF]

\* faulty variant: results taken in completion order, as as_completed() would
MapAsCompleted(idx) == {f \in Tasks : pc[f] \in {"done", "raised"}}

\* the future whose result executor.map() yields next, after idx - 1 results
MapNext(idx) == {idx}

Active     == {"take", "get", "check"}
Finished   == {"none", "done", "raised", "cancelled"}
Quiescent  == \A t \in Tasks : pc[t] \in Finished
HeldWorkers == {held[t] : t \in {u \in Tasks : held[u] # NoneHandle}}

\* -------------------------------------------------------------- initial
\* the module after import: tuning_pool = TuningProcessPool(), no child
\* process, EXIT_HANDLER_REGISTERED = False
Constructed ==
    /\ processes = [none |-> TRUE, queue |-> <<>>]
    /\ executor = NoneHandle
    /\ devices = <<>>
    /\ workers = [w \in WorkerIds |-> NewWorker(NoneDevice)]
    /\ child = [c \in Pids |-> [state |-> "unborn", cur |-> NoMsg]]
    /\ request_q = [c \in Pids |-> <<>>]
    /\ response_q = [c \in Pids |-> <<>>]
    /\ nextPid = 1
    /\ callerPc = "idle"
    /\ callerIdx = 0
    /\ lastCall = [op |-> "none", outcome |-> "ok"]
    /\ results = <<>>
    /\ pc = [t \in Tasks |-> "none"]
    /\ held = [t \in Tasks |-> NoneHandle]
    /\ ret = [t \in Tasks |-> 0]
    /\ ponged = {}
    /\ fault = [t \in Tasks |-> "none"]
    /\ sent = [t \in Tasks |-> 0]
    /\ otherFault = FALSE
    /\ genStart = 1
    /\ lastInf = [w \in WorkerIds |-> FALSE]
    /\ EXIT_HANDLER_REGISTERED = FALSE
    /\ atexit_handlers = 0
    /\ parent = "running"

Input(multi, count, env) == [multi |-> multi, count |-> count, env |-> env]

\* what the process runs with: multi-device tuning off; on with 0 to
\* MaxDevices devices; on with an allow-list naming one device, a field
\* that is no number, more devices than there are
Inputs ==
    {Input(FALSE, MaxDevices, Unset)}
    \cup {Input(TRUE, n, Unset) : n \in 0..MaxDevices}
    \cup {Input(TRUE, MaxDevices, Visible(<<"1">>)),
          Input(TRUE, MaxDevices, Visible(<<"x">>)),
          Input(TRUE, 0, Visible(<<"0">>))}

Reads(i) ==
    /\ autotune_multi_device = i.multi
    /\ device_count = i.count
    /\ environ = i.env

Init == Constructed /\ \E i \in Inputs : Reads(i)


\* ------------------------------------------------- child process actions
\* the choices whose request child c holds: on its request queue, or in
\* benchmark()
Serving(c) ==
    {t \in Tasks :
        \/ \E i \in 1..Len(request_q[c]) :
              /\ request_q[c][i].kind \in BmreqKinds
              /\ request_q[c][i].val = t
        \/ /\ child[c].state \in {"running", "hung"}
           /\ child[c].cur.val = t}

\* workloop(): obj = request_queue.get() and the branch taken on obj,
\* up to the call of obj.benchmark()
workloop(c) ==
    /\ child[c].state = "waiting"
    /\ request_q[c] # <<>>
    /\ LET obj == Head(request_q[c]) IN
       /\ request_q' = [request_q EXCEPT ![c] = Tail(@)]
       /\ CASE obj.kind = "None" ->
                 \* break; process_main returns and the process exits
                 /\ child' = [child EXCEPT ![c].state = "exited"]
                 /\ UNCHANGED <<response_q, ponged, fault>>
            [] obj.kind = "Ping" ->
                 /\ response_q' = [response_q EXCEPT ![c] = Append(@, Pong)]
                 /\ ponged' = ponged \cup {c}
                 /\ UNCHANGED <<child, fault>>
            [] obj.kind = "BenchmarkRequest" ->
                 /\ child' = [child EXCEPT ![c] = [state |-> "running", cur |-> obj]]
                 /\ UNCHANGED <<response_q, ponged, fault>>
            [] OTHER ->
                 \* raise RuntimeError: process_main logs it and returns
                 /\ child' = [child EXCEPT ![c].state = "exited"]
                 /\ fault' = [fault EXCEPT ![obj.val] = "invalid"]
                 /\ UNCHANGED <<response_q, ponged>>
    /\ UNCHANGED <<nextPid, poolVars, callerVars, taskVars, sent, otherFault,
                   genStart, lastInf>>
    /\ UNCHANGED <<envVars, exitVars>>

\* faulty variant: the result is put on the response queue twice
BenchmarkAnswersTwice(c) ==
    /\ child[c].state = "running"
    /\ response_q' = [response_q EXCEPT
                        ![c] = @ \o << Msg("Result", child[c].cur.val),
                                      Msg("Result", child[c].cur.val) >>]
    /\ child' = [child EXCEPT ![c] = [state |-> "waiting", cur |-> NoMsg]]
    /\ UNCHANGED <<request_q, nextPid, poolVars, callerVars, taskVars, histVars>>
    /\ UNCHANGED <<envVars, exitVars>>

\* response_queue.put(obj.benchmark()) when benchmark() returns
BenchmarkReturns(c) ==
    /\ child[c].state = "running"
    /\ response_q' = [response_q EXCEPT
                        ![c] = Append(@, Msg("Result", child[c].cur.val))]
    /\ child' = [child EXCEPT ![c] = [state |-> "waiting", cur |-> NoMsg]]
    /\ UNCHANGED <<request_q, nextPid, poolVars, callerVars, taskVars, histVars>>
    /\ UNCHANGED <<envVars, exitVars>>

\* faulty variant: the exception is logged inside the loop, which goes on
BenchmarkRaisesLoopGoesOn(c) ==
    /\ child[c].state = "running"
    /\ child' = [child EXCEPT ![c] = [state |-> "waiting", cur |-> NoMsg]]
    /\ fault' = [fault EXCEPT ![child[c].cur.val] = "raised"]
    /\ UNCHANGED <<request_q, response_q, nextPid, poolVars, callerVars,
                   taskVars, ponged, sent, otherFault, genStart, lastInf>>
    /\ UNCHANGED <<envVars, exitVars>>

\* obj.benchmark() raises: workloop propagates, process_main logs the
\* exception and the process exits without a response
BenchmarkRaises(c) ==
    /\ child[c].state = "running"
    /\ child' = [child EXCEPT ![c] = [state |-> "exited", cur |-> NoMsg]]
    /\ fault' = [fault EXCEPT ![child[c].cur.val] = "raised"]
    /\ UNCHANGED <<request_q, response_q, nextPid, poolVars, callerVars,
                   taskVars, ponged, sent, otherFault, genStart, lastInf>>
    /\ UNCHANGED <<envVars, exitVars>>

\* obj.benchmark() neither returns nor raises
BenchmarkHangs(c) ==
    /\ child[c].state = "running"
    /\ child' = [child EXCEPT ![c].state = "hung"]
    /\ UNCHANGED <<request_q, response_q, nextPid, poolVars, callerVars,
                   taskVars, histVars>>
    /\ UNCHANGED <<envVars, exitVars>>

\* the child process is killed from outside
Kill(c) ==
    /\ Live(c)
    /\ child' = [child EXCEPT ![c] = [state |-> "exited", cur |-> NoMsg]]
    /\ IF Serving(c) # {}
         THEN /\ fault' = [t \in Tasks |->
                             IF t \in Serving(c) THEN "killed" ELSE fault[t]]
              /\ UNCHANGED otherFault
         ELSE /\ otherFault' = TRUE
              /\ UNCHANGED fault
    /\ UNCHANGED <<request_q, response_q, nextPid, poolVars, callerVars,
                   taskVars, ponged, sent, genStart, lastInf>>
    /\ UNCHANGED <<envVars, exitVars>>


\* ------------------------------------------------ executor work items
\* a ThreadPoolExecutor thread takes the oldest pending work item and
\* calls target(choice); there are max_workers threads
ThreadPickup(t) ==
    /\ pc[t] = "queued"
    /\ executor # NoneHandle
    /\ Cardinality({u \in Tasks : pc[u] \in Active}) < executor
    /\ \A u \in Tasks : u < t => pc[u] # "queued"
    /\ pc' = [pc EXCEPT ![t] = "take"]
    /\ UNCHANGED <<held, ret, poolVars, childVars, callerVars, histVars>>
    /\ UNCHANGED <<envVars, exitVars>>

\* target(): process = self.processes.get(); process.put(choice.bmreq)
\* on a worker that is valid(): initialize() returns at once
target_put(t) ==
    /\ pc[t] = "take"
    /\ ~processes.none
    /\ processes.queue # <<>>
    /\ LET g == QueueGet(processes.queue)
           w == g.item
           p == workers[w]
       IN
       /\ ~NeedsSpawn(p)
       /\ processes' = [processes EXCEPT !.queue = g.rest]
       /\ IF p.request_queue = NoneHandle
            THEN \* assert self.request_queue is not None
                 /\ pc' = [pc EXCEPT ![t] = "raised"]
                 /\ UNCHANGED <<held, request_q, sent>>
            ELSE \E k \in BmreqKinds :
                 /\ request_q' = [request_q EXCEPT
                                    ![p.request_queue] = Append(@, Bmreq(k, t))]
                 /\ pc' = [pc EXCEPT ![t] = "get"]
                 /\ held' = [held EXCEPT ![t] = w]
                 /\ sent' = [sent EXCEPT ![t] = @ + 1]
    /\ UNCHANGED <<executor, devices, workers, child, response_q, nextPid,
                   callerVars, ret, ponged, fault, otherFault, genStart, lastInf>>
    /\ UNCHANGED <<envVars, exitVars>>

\* the same on a worker that is not valid(): put() calls initialize(),
\* which creates the queues and the Process and starts it
target_put_respawn(t) ==
    /\ pc[t] = "take"
    /\ ~processes.none
    /\ processes.queue # <<>>
    /\ nextPid <= MaxSpawn
    /\ LET g == QueueGet(processes.queue)
           w == g.item
           p == workers[w]
       IN
       /\ NeedsSpawn(p)
       /\ processes' = [processes EXCEPT !.queue = g.rest]
       /\ workers' = [workers EXCEPT ![w] = Spawned(p, nextPid)]
       /\ child' = [child EXCEPT ![nextPid].state = "waiting"]
       /\ \E k \in BmreqKinds :
             request_q' = [request_q EXCEPT ![nextPid] = <<Bmreq(k, t)>>]
       /\ held' = [held EXCEPT ![t] = w]
    /\ nextPid' = nextPid + 1
    /\ pc' = [pc EXCEPT ![t] = "get"]
    /\ sent' = [sent EXCEPT ![t] = @ + 1]
    /\ UNCHANGED <<executor, devices, response_q, callerVars, ret, ponged,
                   fault, otherFault, genStart, lastInf>>
    /\ UNCHANGED <<envVars, exitVars>>

\* the same when self.process.start() raises: the exception leaves put()
\* and target() before the try block is entered
target_put_start_fails(t) ==
    /\ pc[t] = "take"
    /\ ~processes.none
    /\ processes.queue # <<>>
    /\ nextPid <= MaxSpawn
    /\ LET g == QueueGet(processes.queue)
           w == g.item
           p == workers[w]
       IN
       /\ NeedsSpawn(p)
       /\ processes' = [processes EXCEPT !.queue = g.rest]
       /\ workers' = [workers EXCEPT ![w] = Spawned(p, nextPid)]
       /\ child' = [child EXCEPT ![nextPid].state = "unstarted"]
    /\ nextPid' = nextPid + 1
    /\ pc' = [pc EXCEPT ![t] = "raised"]
    /\ otherFault' = TRUE
    /\ UNCHANGED <<executor, devices, request_q, response_q, callerVars, held,
                   ret, ponged, fault, sent, genStart, lastInf>>
    /\ UNCHANGED <<envVars, exitVars>>

\* target() leaves through `finally: self.processes.put(process)`
Finally(t) == [processes EXCEPT !.queue = Append(@, held[t])]

\* get(): self.response_queue.get(timeout=1.0) returns a message;
\* target() returns it
target_get_return(t) ==
    /\ pc[t] = "get"
    /\ LET w == held[t]
           p == workers[w]
       IN
       /\ valid(p)
       /\ response_q[p.response_queue] # <<>>
       /\ ret' = [ret EXCEPT ![t] = ValueOf(Head(response_q[p.response_queue]))]
       /\ response_q' = [response_q EXCEPT ![p.response_queue] = Tail(@)]
       /\ lastInf' = [lastInf EXCEPT ![w] = FALSE]
    /\ processes' = Finally(t)
    /\ pc' = [pc EXCEPT ![t] = "done"]
    /\ held' = [held EXCEPT ![t] = NoneHandle]
    /\ UNCHANGED <<executor, devices, workers, child, request_q, nextPid,
                   callerVars, ponged, fault, sent, otherFault, genStart>>
    /\ UNCHANGED <<envVars, exitVars>>

\* get(): the poll times out with queue.Empty (or an assert of get() fails)
target_get_timeout(t) ==
    /\ pc[t] = "get"
    /\ LET p == workers[held[t]] IN
       IF valid(p)
         THEN /\ response_q[p.response_queue] = <<>>
              /\ pc' = [pc EXCEPT ![t] = "check"]
              /\ UNCHANGED <<processes, held>>
         ELSE /\ pc' = [pc EXCEPT ![t] = "raised"]
              /\ processes' = Finally(t)
              /\ held' = [held EXCEPT ![t] = NoneHandle]
    /\ UNCHANGED <<executor, devices, workers, childVars, callerVars, ret,
                   histVars>>
    /\ UNCHANGED <<envVars, exitVars>>

\* get(): status = self.process.exitcode; continue while it is None,
\* else clear() and re-raise queue.Empty, which target() turns into INF
target_get_check(t) ==
    /\ pc[t] = "check"
    /\ LET w == held[t]
           p == workers[w]
       IN
       IF p.process # NoneHandle /\ ExitCodeIsNone(p.process)
         THEN /\ pc' = [pc EXCEPT ![t] = "get"]
              /\ UNCHANGED <<processes, workers, child, request_q, response_q,
                             held, ret, lastInf>>
         ELSE /\ IF p.process # NoneHandle
                   THEN /\ workers' = [workers EXCEPT ![w] = clear(p)]
                        /\ child' = [child EXCEPT ![p.process].state = "reaped"]
                        /\ request_q' = [request_q EXCEPT ![p.process] = <<>>]
                        /\ response_q' = [response_q EXCEPT ![p.process] = <<>>]
                        /\ lastInf' = [lastInf EXCEPT ![w] = TRUE]
                        /\ IF TargetOnEmpty.raises
                             THEN /\ pc' = [pc EXCEPT ![t] = "raised"]
                                  /\ UNCHANGED ret
                             ELSE /\ pc' = [pc EXCEPT ![t] = "done"]
                                  /\ ret' = [ret EXCEPT ![t] = TargetOnEmpty.value]
                   ELSE /\ pc' = [pc EXCEPT ![t] = "raised"]
                        /\ UNCHANGED <<workers, child, request_q, response_q,
                                       ret, lastInf>>
              /\ processes' = Finally(t)
              /\ held' = [held EXCEPT ![t] = NoneHandle]
    /\ UNCHANGED <<executor, devices, nextPid, callerVars, ponged, fault, sent,
                   otherFault, genStart>>
    /\ UNCHANGED <<envVars, exitVars>>


\* ------------------------------------------------------ the caller thread
Return(op, outcome) ==
    /\ callerPc' = "idle"
    /\ callerIdx' = 0
    /\ lastCall' = [op |-> op, outcome |-> outcome]

\* where initialize() continues once every device has its TuningProcess
AfterSpawn(q) == IF Len(HandshakeWorkers(q)) = 0 THEN "init_finish" ELSE "init_wait"

\* TuningProcessPool.initialize(), up to the first TuningProcess
initialize ==
    /\ callerPc = "idle"
    /\ parent = "running"
    /\ IF processes.none # (executor = NoneHandle)
         THEN \* assert (self.processes is None) == (self.executor is None)
              /\ Return("initialize", "assert")
              /\ UNCHANGED <<processes, devices, workers, otherFault, genStart,
                             lastInf>>
         ELSE IF ~processes.none
           THEN /\ Return("initialize", "ok")
                /\ UNCHANGED <<processes, devices, workers, otherFault,
                               genStart, lastInf>>
           ELSE LET got == get_device_list(autotune_multi_device, environ,
                                           device_count)
                IN
                IF got.raises
                  THEN \* get_device_list() raises before self.processes is set
                       /\ Return("initialize", "raised")
                       /\ UNCHANGED <<processes, devices, workers, otherFault,
                                      genStart, lastInf>>
                  ELSE /\ devices' = got.value
                       /\ processes' = [none |-> FALSE, queue |-> <<>>]
                       /\ workers' = [w \in WorkerIds |-> NewWorker(NoneDevice)]
                       /\ callerPc' = IF Len(devices') = 0 THEN "init_finish"
                                                           ELSE "init_spawn"
                       /\ callerIdx' = 1
                       /\ genStart' = nextPid
                       /\ otherFault' = FALSE
                       /\ lastInf' = [w \in WorkerIds |-> FALSE]
                       /\ UNCHANGED lastCall
    /\ UNCHANGED <<executor, childVars, results, taskVars, ponged, fault, sent,
                   envVars, exitVars>>

\* one round of `for device in devices`: p = TuningProcess(device);
\* p.initialize(); p.put(Ping()); self.processes.put(p)
initialize_spawn ==
    /\ callerPc = "init_spawn"
    /\ nextPid <= MaxSpawn
    /\ LET i == callerIdx
           p == NewWorker(devices[i])
       IN
       IF NeedsSpawn(p)
         THEN /\ workers' = [workers EXCEPT ![i] = Spawned(p, nextPid)]
              /\ child' = [child EXCEPT ![nextPid].state = "waiting"]
              /\ request_q' = [request_q EXCEPT ![nextPid] = <<Ping>>]
              /\ nextPid' = nextPid + 1
              /\ processes' = [processes EXCEPT !.queue = Append(@, i)]
              /\ IF i = Len(devices)
                   THEN /\ callerPc' = AfterSpawn(processes'.queue)
                        /\ callerIdx' = 1
                   ELSE /\ callerPc' = "init_spawn"
                        /\ callerIdx' = i + 1
              /\ UNCHANGED lastCall
         ELSE \* put(): assert self.request_queue is not None
              /\ workers' = [workers EXCEPT ![i] = p]
              /\ Return("initialize", "raised")
              /\ UNCHANGED <<child, request_q, nextPid, processes>>
    /\ UNCHANGED <<executor, devices, response_q, results, taskVars, histVars>>
    /\ UNCHANGED <<envVars, exitVars>>

\* the same round when self.process.start() raises
initialize_start_fails ==
    /\ callerPc = "init_spawn"
    /\ nextPid <= MaxSpawn
    /\ LET i == callerIdx
           p == NewWorker(devices[i])
       IN
       /\ NeedsSpawn(p)
       /\ workers' = [workers EXCEPT ![i] = Spawned(p, nextPid)]
       /\ child' = [child EXCEPT ![nextPid].state = "unstarted"]
    /\ nextPid' = nextPid + 1
    /\ otherFault' = TRUE
    /\ Return("initialize", "raised")
    /\ UNCHANGED <<processes, executor, devices, request_q, response_q, results,
                   taskVars, ponged, fault, sent, genStart, lastInf>>
    /\ UNCHANGED <<envVars, exitVars>>

\* the TuningProcess whose Pong initialize() is waiting for
HandshakeWorker == workers[HandshakeWorkers(processes.queue)[callerIdx]]

\* `assert isinstance(p.get(), Pong)`: get() returns a message
initialize_get_return ==
    /\ callerPc = "init_wait"
    /\ LET p == HandshakeWorker IN
       /\ valid(p)
       /\ response_q[p.response_queue] # <<>>
       /\ response_q' = [response_q EXCEPT ![p.response_queue] = Tail(@)]
       /\ IF Head(response_q[p.response_queue]) # Pong
            THEN Return("initialize", "raised")
            ELSE IF callerIdx = Len(HandshakeWorkers(processes.queue))
              THEN /\ callerPc' = "init_finish"
                   /\ callerIdx' = 0
                   /\ UNCHANGED lastCall
              ELSE /\ callerIdx' = callerIdx + 1
                   /\ UNCHANGED <<callerPc, lastCall>>
    /\ UNCHANGED <<poolVars, child, request_q, nextPid, results, taskVars,
                   histVars>>
    /\ UNCHANGED <<envVars, exitVars>>

\* get(): the poll times out with queue.Empty
initialize_get_timeout ==
    /\ callerPc = "init_wait"
    /\ LET p == HandshakeWorker IN
       /\ valid(p)
       /\ response_q[p.response_queue] = <<>>
    /\ callerPc' = "init_check"
    /\ UNCHANGED <<poolVars, childVars, callerIdx, lastCall, results, taskVars,
                   histVars>>
    /\ UNCHANGED <<envVars, exitVars>>

\* get(): continue while exitcode is None, else clear() and re-raise
\* queue.Empty, which initialize() does not catch
initialize_get_check ==
    /\ callerPc = "init_check"
    /\ LET w == HandshakeWorkers(processes.queue)[callerIdx]
           p == workers[w]
       IN
       IF ExitCodeIsNone(p.process)
         THEN /\ callerPc' = "init_wait"
              /\ UNCHANGED <<workers, child, request_q, response_q, callerIdx,
                             lastCall>>
         ELSE /\ workers' = [workers EXCEPT ![w] = clear(p)]
              /\ child' = [child EXCEPT ![p.process].state = "reaped"]
              /\ request_q' = [request_q EXCEPT ![p.process] = <<>>]
              /\ response_q' = [response_q EXCEPT ![p.process] = <<>>]
              /\ Return("initialize", "raised")
    /\ UNCHANGED <<processes, executor, devices, nextPid, results, taskVars,
                   histVars>>
    /\ UNCHANGED <<envVars, exitVars>>

\* `if not EXIT_HANDLER_REGISTERED`
RegistersHandler == ~EXIT_HANDLER_REGISTERED

\* self.executor = ThreadPoolExecutor(max_workers=len(devices)), which
\* raises ValueError when max_workers is 0; then the exit handler is
\* registered unless EXIT_HANDLER_REGISTERED
initialize_finish ==
    /\ callerPc = "init_finish"
    /\ IF Len(devices) = 0
         THEN /\ Return("initialize", "raised")
              /\ UNCHANGED <<executor, EXIT_HANDLER_REGISTERED, atexit_handlers>>
         ELSE /\ executor' = Len(devices)
              /\ IF RegistersHandler
                   THEN /\ EXIT_HANDLER_REGISTERED' = TRUE
                        /\ atexit_handlers' = atexit_handlers + 1
                   ELSE UNCHANGED <<EXIT_HANDLER_REGISTERED, atexit_handlers>>
              /\ Return("initialize", "ok")
    /\ UNCHANGED <<processes, devices, workers, childVars, results, taskVars,
                   histVars>>
    /\ UNCHANGED <<envVars, parent>>


\* benchmark(choices), choices being the NumTasks choices in order: the
\* two asserts and executor.map(self.target, choices), which submits one
\* work item per choice.  The caller starts a batch when no work item of
\* an earlier batch is still running.
benchmark ==
    /\ callerPc = "idle"
    /\ parent = "running"
    /\ Quiescent
    /\ IF processes.none \/ executor = NoneHandle
         THEN \* assert self.processes is not None / self.executor is not None
              /\ Return("benchmark", "assert")
              /\ UNCHANGED <<results, taskVars, fault, sent>>
         ELSE /\ pc' = [t \in Tasks |-> "queued"]
              /\ held' = [t \in Tasks |-> NoneHandle]
              /\ ret' = [t \in Tasks |-> 0]
              /\ results' = <<>>
              /\ fault' = [t \in Tasks |-> "none"]
              /\ sent' = [t \in Tasks |-> 0]
              /\ callerPc' = "bench_collect"
              /\ callerIdx' = 1
              /\ lastCall' = [op |-> "benchmark", outcome |-> "running"]
    /\ UNCHANGED <<poolVars, childVars, ponged, otherFault, genStart, lastInf>>
    /\ UNCHANGED <<envVars, exitVars>>

\* one round of `for choice, result in zip(choices, executor.map(...))`:
\* the iterator yields the next future's result, or re-raises its
\* exception after cancelling the work items that have not started
benchmark_collect ==
    /\ callerPc = "bench_collect"
    /\ \E f \in MapNext(callerIdx) :
          /\ pc[f] \in {"done", "raised"}
          /\ IF pc[f] = "done"
               THEN /\ results' = Append(results, ret[f])
                    /\ UNCHANGED pc
                    /\ IF callerIdx = NumTasks
                         THEN Return("benchmark", "ok")
                         ELSE /\ callerIdx' = callerIdx + 1
                              /\ UNCHANGED <<callerPc, lastCall>>
               ELSE /\ pc' = [t \in Tasks |->
                                IF pc[t] = "queued" THEN "cancelled" ELSE pc[t]]
                    /\ Return("benchmark", "raised")
                    /\ UNCHANGED results
    /\ UNCHANGED <<poolVars, childVars, held, ret, histVars>>
    /\ UNCHANGED <<envVars, exitVars>>

\* faulty variant: a wait() that does not join
JoinSkipped(c) == TRUE

\* Process.join() returns once the child has exited
Joined(c) == ~Live(c)

\* the parent process exits: the executor's threads are joined, then the
\* interpreter runs the callback registered with atexit, if there is one,
\* which calls self.terminate()
interpreter_exit ==
    /\ callerPc = "idle"
    /\ parent = "running"
    /\ Quiescent
    /\ parent' = IF atexit_handlers > 0 THEN "exiting" ELSE "exited"
    /\ UNCHANGED <<poolVars, childVars, callerVars, taskVars, histVars, envVars,
                   EXIT_HANDLER_REGISTERED, atexit_handlers>>

\* when terminate() was called by the atexit callback and returns or
\* raises, the process is gone
AfterCallback ==
    parent' = IF parent = "exiting" /\ callerPc' = "idle" THEN "exited" ELSE parent

\* the request queues terminate() puts None on: TuningProcess.terminate()
\* of every worker of self.processes.queue that is valid()
StopTargets ==
    {workers[processes.queue[i]].request_queue :
        i \in {j \in 1..Len(processes.queue) : valid(workers[processes.queue[j]])}}

\* TuningProcessPool.terminate(): executor.shutdown() waits for every work
\* item; then `for p in self.processes.queue: p.terminate()`
terminate ==
    /\ callerPc = "idle"
    /\ parent # "exited"
    /\ executor # NoneHandle => Quiescent
    /\ executor' = NoneHandle
    /\ IF processes.none
         THEN /\ Return("terminate", "ok")
              /\ UNCHANGED <<processes, request_q>>
         ELSE /\ request_q' = [c \in Pids |->
                                 IF c \in StopTargets
                                   THEN Append(request_q[c], StopMsg)
                                   ELSE request_q[c]]
              /\ IF processes.queue = <<>>
                   THEN /\ processes' = [none |-> TRUE, queue |-> <<>>]
                        /\ Return("terminate", "ok")
                   ELSE /\ callerPc' = "term_wait"
                        /\ callerIdx' = 1
                        /\ UNCHANGED <<processes, lastCall>>
    /\ UNCHANGED <<devices, workers, child, response_q, nextPid, results,
                   taskVars, histVars>>
    /\ AfterCallback
    /\ UNCHANGED <<envVars, EXIT_HANDLER_REGISTERED, atexit_handlers>>

\* one round of `for p in self.processes.queue: p.wait()`: join() and
\* clear() when p.process is not None; after the last one
\* self.processes = None
terminate_wait ==
    /\ callerPc = "term_wait"
    /\ LET w == processes.queue[callerIdx]
           p == workers[w]
           last == callerIdx = Len(processes.queue)
       IN
       /\ p.process # NoneHandle => Joined(p.process)
       /\ IF p.process # NoneHandle /\ child[p.process].state = "unstarted"
            THEN \* join() asserts that the process was started
                 /\ Return("terminate", "raised")
                 /\ UNCHANGED <<processes, workers, child, request_q, response_q>>
            ELSE /\ IF p.process # NoneHandle
                      THEN /\ workers' = [workers EXCEPT ![w] = clear(p)]
                           /\ child' = [child EXCEPT ![p.process].state =
                                          IF Live(p.process) THEN @ ELSE "reaped"]
                           /\ request_q' = [request_q EXCEPT ![p.process] = <<>>]
                           /\ response_q' = [response_q EXCEPT ![p.process] = <<>>]
                      ELSE UNCHANGED <<workers, child, request_q, response_q>>
                 /\ IF last
                      THEN /\ processes' = [none |-> TRUE, queue |-> <<>>]
                           /\ Return("terminate", "ok")
                      ELSE /\ callerIdx' = callerIdx + 1
                           /\ UNCHANGED <<processes, callerPc, lastCall>>
    /\ UNCHANGED <<executor, devices, nextPid, results, taskVars, histVars>>
    /\ AfterCallback
    /\ UNCHANGED <<envVars, EXIT_HANDLER_REGISTERED, atexit_handlers>>

\* ---------------------------------------------------------- specification
ChildStep(c) == workloop(c) \/ BenchmarkReturns(c)

TargetStep(t) ==
    \/ ThreadPickup(t)
    \/ target_put(t)
    \/ target_put_respawn(t)
    \/ target_get_return(t)
    \/ target_get_timeout(t)
    \/ target_get_check(t)

CallerStep ==
    \/ initialize_spawn
    \/ initialize_get_return
    \/ initialize_get_timeout
    \/ initialize_get_check
    \/ initialize_finish
    \/ benchmark_collect
    \/ terminate_wait

Next ==
    \/ interpreter_exit
    \/ initialize
    \/ initialize_spawn
    \/ initialize_start_fails
    \/ initialize_get_return
    \/ initialize_get_timeout
    \/ initialize_get_check
    \/ initialize_finish
    \/ benchmark
    \/ benchmark_collect
    \/ terminate
    \/ terminate_wait
    \/ \E t \in Tasks : ThreadPickup(t)
    \/ \E t \in Tasks : target_put(t)
    \/ \E t \in Tasks : target_put_respawn(t)
    \/ \E t \in Tasks : target_put_start_fails(t)
    \/ \E t \in Tasks : target_get_return(t)
    \/ \E t \in Tasks : target_get_timeout(t)
    \/ \E t \in Tasks : target_get_check(t)
    \/ \E c \in Pids : workloop(c)
    \/ \E c \in Pids : BenchmarkReturns(c)
    \/ \E c \in Pids : BenchmarkRaises(c)
    \/ \E c \in Pids : BenchmarkHangs(c)
    \/ \E c \in Pids : Kill(c)

Spec == Init /\ [][Next]_vars

\* Threads of the parent and live children are scheduled: every thread
\* step and every child step that stays enabled is eventually taken.
\* The caller is free never to call again, and no fault has to happen.
FairSpec ==
    /\ Spec
    /\ WF_vars(CallerStep)
    /\ \A t \in Tasks : WF_vars(TargetStep(t))
    /\ \A c \in Pids : WF_vars(ChildStep(c))


\* =================================================================== claims
InFlight == {t \in Tasks : pc[t] \in {"get", "check"}}
Executing == {c \in Pids : child[c].state \in {"running", "hung"}}
Idle == {processes.queue[i] : i \in 1..Len(processes.queue)}

\* BenchmarkRequests a worker's request queue holds or its child executes
Unanswered(p) ==
    Cardinality({i \in 1..Len(request_q[p.request_queue]) :
                    request_q[p.request_queue][i].kind \in BmreqKinds})
    + (IF p.process \in Executing THEN 1 ELSE 0)

\* C1: with K = len(devices) workers, at most K requests are in flight and
\* at most K children execute a benchmark at any time, whatever the number
\* of choices; a worker is held by at most one target() at a time, is
\* never idle and held at once, is in the idle queue at most once, and
\* has at most one unanswered BenchmarkRequest.
C1_AtMostKInFlight ==
    /\ Cardinality(InFlight) <= Len(devices)
    /\ Cardinality(Executing) <= Len(devices)
    /\ \A t, u \in Tasks :
          (t # u /\ held[t] # NoneHandle /\ held[u] # NoneHandle)
             => held[t] # held[u]
    /\ \A t \in Tasks : held[t] # NoneHandle => held[t] \notin Idle
    /\ Cardinality(Idle) = Len(processes.queue)
    /\ \A w \in WorkerIds : valid(workers[w]) => Unanswered(workers[w]) <= 1

\* the pool is saturated: every worker has a request in flight, its child
\* is executing it, and a further choice is waiting for a thread
C1_Witness ==
    /\ Len(devices) >= 1
    /\ Cardinality(InFlight) = Len(devices)
    /\ Cardinality(Executing) = Len(devices)
    /\ \E t \in Tasks : pc[t] = "queued"


BatchOver == /\ callerPc = "idle"
             /\ lastCall.op = "benchmark"
             /\ lastCall.outcome \in {"ok", "raised"}

\* C2: when the only faults since the pool was initialized are children
\* dying while they serve a request (killed, benchmark() raising, invalid
\* request), a batch given to benchmark() returns normally with one entry
\* per choice: INF for each choice whose child died while serving it and
\* the child's measurement for every other choice.
C2_BatchIsolatesKills ==
    (BatchOver /\ ~otherFault) =>
        /\ lastCall.outcome = "ok"
        /\ DOMAIN results = Tasks
        /\ \A t \in Tasks :
              results[t] = IF fault[t] # "none" THEN INF ELSE Measured(t)

\* a batch has returned in which the child of choice 1 was killed while
\* serving it and the other choices were measured
C2_Witness ==
    /\ BatchOver
    /\ ~otherFault
    /\ lastCall.outcome = "ok"
    /\ fault[1] = "killed"
    /\ results[1] = INF
    /\ \A t \in Tasks \ {1} : results[t] = Measured(t)


InGet(t) == pc[t] \in {"get", "check"}

\* the child that holds the request of t neither answers nor exits
Hung(t) ==
    /\ held[t] # NoneHandle
    /\ workers[held[t]].process # NoneHandle
    /\ child[workers[held[t]].process].state = "hung"

\* C3 as stated: every dispatched request eventually gets a result, also
\* when its child neither answers nor exits.
C3_EveryDispatchReturns == \A t \in Tasks : InGet(t) ~> (pc[t] = "done")

\* C3 as amended: every dispatched request whose child does not hang
\* eventually gets a result, the measurement or INF; while the child is
\* hung, get() keeps polling and the dispatch does not return.
C3_DispatchReturnsUnlessHung ==
    /\ \A t \in Tasks : InGet(t) ~> (pc[t] = "done" \/ Hung(t))
    /\ [][\A t \in Tasks : (InGet(t) /\ Hung(t)) => InGet(t)']_vars
    /\ [](\A t \in Tasks : pc[t] = "done" => ret[t] \in {Measured(t), INF})

\* one dispatch has returned INF after its child died and another one has
\* returned its measurement
C3_Witness ==
    \E t, u \in Tasks :
        /\ pc[t] = "done" /\ ret[t] = INF /\ fault[t] # "none"
        /\ pc[u] = "done" /\ ret[u] = Measured(u)


PoolSize == Cardinality(Idle) + Cardinality(HeldWorkers)

\* C4: (a) when target() returns INF on the dead-worker path, its worker
\* is DEAD (not valid) and back in the idle queue, and the pool has as
\* many workers as before; (b) when the next request is put on a worker
\* whose last dispatch returned INF, put() has spawned a new Process for
\* it, that child is alive and the request is the first on its request
\* queue; (c) the message get() then returns to target() is the
\* measurement of that request.
C4_PoolUsableAfterKill ==
    /\ [][\A t \in Tasks :
            (pc[t] = "check" /\ pc'[t] = "done") =>
                /\ ret'[t] = INF
                /\ held[t] \in Idle'
                /\ ~valid(workers'[held[t]])
                /\ PoolSize' = PoolSize]_vars
    /\ [][\A t \in Tasks :
            (pc[t] = "take" /\ pc'[t] = "get" /\ lastInf[held'[t]]) =>
                LET p == workers'[held'[t]] IN
                /\ valid(p)
                /\ child[p.process].state = "unborn"
                /\ child'[p.process].state = "waiting"
                /\ request_q'[p.request_queue] = <<Bmreq("BenchmarkRequest", t)>>
                     \/ request_q'[p.request_queue] = <<Bmreq("Other", t)>>]_vars
    /\ [][\A t \in Tasks :
            (pc[t] = "get" /\ pc'[t] = "done") =>
                /\ ret'[t] = Measured(t)
                /\ PoolSize' = PoolSize]_vars

\* in a pool of one worker the child of choice 1 was killed while serving
\* it, target() returned INF, and choice 2 was then measured by the same
\* worker's new child
C4_Witness ==
    /\ Len(devices) = 1
    /\ pc[1] = "done" /\ ret[1] = INF /\ fault[1] = "killed"
    /\ pc[2] = "done" /\ ret[2] = Measured(2)
    /\ Idle = {1}
    /\ valid(workers[1]) /\ workers[1].process > genStart


PoolUp == ~processes.none /\ executor # NoneHandle

\* C5: between initialize() and terminate() the workers in the idle queue
\* plus the workers held by running target() calls are as many as the
\* target devices: every target() that took a worker puts it back,
\* whatever its outcome.
C5_WorkersConserved == PoolUp => PoolSize = Len(devices)


\* C6: a BenchmarkRequest is put on the request queue of a child only
\* after that child has answered a Ping, for the children spawned by the
\* pool's initialize() and for those spawned later by put().
C6_PongBeforeRequest == \A c \in Pids : Serving(c) # {} => c \in ponged

Terminated == /\ callerPc = "idle"
              /\ lastCall = [op |-> "terminate", outcome |-> "ok"]

Gone(c) == child[c].state \in {"unborn", "unstarted", "reaped"}

\* C7: (a) when terminate() has returned the pool holds no workers and
\* no dispatcher, and every Process ever started has exited and has been
\* joined by wait() or had its exit code collected by get(); (b) the
\* children of earlier pools stay dead; (c) an initialize() that starts
\* over reaches its end with one valid worker per device, each with its
\* own Process created by this initialize().
C7_TerminateThenInitialize ==
    /\ Terminated =>
          /\ processes.none
          /\ executor = NoneHandle
          /\ \A c \in Pids : Gone(c)
    /\ \A c \in Pids : c < genStart => Gone(c)
    /\ callerPc = "init_finish" =>
          /\ Len(processes.queue) = Len(devices)
          /\ Cardinality(Idle) = Len(devices)
          /\ \A w \in Idle :
                /\ valid(workers[w])
                /\ workers[w].process >= genStart
                /\ child[workers[w].process].state # "unstarted"
          /\ \A w, x \in Idle :
                w # x => workers[w].process # workers[x].process

\* a pool whose first child crashed was terminated and initialized again,
\* and the new pool has measured a choice of the batch it is running
C7_Witness ==
    /\ genStart > 1
    /\ \E c \in Pids : c < genStart /\ child[c].state = "reaped"
    /\ PoolUp
    /\ lastCall = [op |-> "benchmark", outcome |-> "running"]
    /\ \E t \in Tasks : pc[t] = "done" /\ ret[t] = Measured(t)


\* requests of choice t on any request queue or in a child's benchmark()
Pending(t) ==
    Cardinality({c \in Pids : child[c].state \in {"running", "hung"}
                               /\ child[c].cur.val = t})
    + Cardinality({x \in Pids \X (1..NumTasks) :
                     /\ x[2] <= Len(request_q[x[1]])
                     /\ request_q[x[1]][x[2]].kind \in BmreqKinds
                     /\ request_q[x[1]][x[2]].val = t})

\* C8: in a batch every choice is put on a request queue at most once
\* (never again after its worker crashed) and at most one request of it
\* exists; every result benchmark() has stored is the return value of
\* target() for the choice it is stored under, the measurement of that
\* choice or INF; and when benchmark() returns, every choice was sent
\* exactly once and has its entry.
C8_OneResultPerChoice ==
    /\ \A t \in Tasks : sent[t] <= 1 /\ Pending(t) <= sent[t]
    /\ lastCall.op = "benchmark" /\ lastCall.outcome \in {"running", "ok"} =>
          \A i \in DOMAIN results :
              /\ results[i] = ret[i]
              /\ results[i] \in {Measured(i), INF}
              /\ sent[i] = 1
    /\ (BatchOver /\ lastCall.outcome = "ok") => DOMAIN results = Tasks

\* choice 2 has completed before choice 1: its child died, target()
\* returned INF and the choice was not sent again, while choice 1 is
\* still in flight and no result has been stored yet
C8_Witness ==
    /\ callerPc = "bench_collect"
    /\ results = <<>>
    /\ InGet(1)
    /\ pc[2] = "done" /\ ret[2] = INF /\ fault[2] # "none" /\ sent[2] = 1

AllHandshaken ==
    /\ Len(processes.queue) = Len(devices)
    /\ \A w \in Idle : workers[w].process \in ponged

InInitialize == callerPc \in {"init_spawn", "init_wait", "init_check"}

\* C9: initialize() gets to create the dispatcher only when every worker
\* of the pool has a child that answered the Ping; a start() that raises
\* and a child found dead by get() during the handshake make initialize()
\* raise to its caller; the loops of initialize() are left early only by
\* raising, the pool is then left without dispatcher and no result of any
\* choice is set.
C9_InitializeFailsLoudly ==
    /\ [](callerPc = "init_finish" /\ Len(devices) > 0 => AllHandshaken)
    /\ [][executor' # executor /\ executor' # NoneHandle =>
            /\ callerPc = "init_finish"
            /\ AllHandshaken
            /\ lastCall' = [op |-> "initialize", outcome |-> "ok"]]_vars
    /\ [][InInitialize /\ callerPc' = "idle" =>
            /\ lastCall' = [op |-> "initialize", outcome |-> "raised"]
            /\ executor' = NoneHandle
            /\ ret' = ret /\ results' = results]_vars
    /\ [][callerPc = "init_spawn" /\ nextPid' # nextPid
            /\ child'[nextPid].state = "unstarted" => callerPc' = "idle"]_vars
    /\ [][callerPc = "init_check" /\ callerPc' # callerPc
            /\ ~ExitCodeIsNone(HandshakeWorker.process) => callerPc' = "idle"]_vars

\* initialize() has raised because a child it spawned exited before it
\* answered the Ping
C9_Witness ==
    /\ callerPc = "idle"
    /\ lastCall = [op |-> "initialize", outcome |-> "raised"]
    /\ executor = NoneHandle
    /\ ~processes.none
    /\ \E c \in Pids : c >= genStart /\ child[c].state = "reaped" /\ c \notin ponged

Faulted(t) == fault[t] \in {"raised", "invalid"}

\* C10: when benchmark() raises in the child or the request is of no
\* known type, the child exits and puts no response; the dispatch of that
\* request does not block: it eventually returns, and with INF.
C10_ChildFaultGivesInf ==
    /\ [][\A t \in Tasks : (~Faulted(t) /\ Faulted(t)') =>
            /\ response_q' = response_q
            /\ \E c \in Pids : child[c].state \in {"waiting", "running"}
                               /\ child'[c].state = "exited"]_vars
    /\ [](\A t \in Tasks : (Faulted(t) /\ pc[t] = "done") => ret[t] = INF)
    /\ \A t \in Tasks :
          (Faulted(t) /\ InGet(t)) ~> (pc[t] = "done" /\ ret[t] = INF)

\* both kinds of fault have happened and both dispatches returned INF
C10_Witness ==
    \E t, u \in Tasks :
        /\ fault[t] = "raised" /\ pc[t] = "done" /\ ret[t] = INF
        /\ fault[u] = "invalid" /\ pc[u] = "done" /\ ret[u] = INF


\* the requests (Ping or choice.bmreq) of child c that have no response
\* taken yet: on its request queue, in benchmark(), or answered with the
\* response still on the response queue
Outstanding(c) ==
    Cardinality({i \in 1..Len(request_q[c]) : request_q[c][i].kind # "None"})
    + (IF c \in Executing THEN 1 ELSE 0)
    + Len(response_q[c])

\* what workloop() answers to obj
Answer(obj) == IF obj.kind = "Ping" THEN Pong ELSE Msg("Result", obj.val)

\* C11: within one worker the child takes the requests in the order they
\* were put and puts exactly one response per Ping or BenchmarkRequest it
\* completes; a worker never has more than one request outstanding, so
\* when target() puts a request nothing is on the worker's queues, and the
\* message get() returns is the response to the request that thread put
\* (a Pong for initialize(), the Result of its own choice for target()).
C11_ResponseMatchesRequest ==
    /\ [](\A c \in Pids : Outstanding(c) <= 1)
    /\ [][\A c \in Pids :
            /\ Len(request_q'[c]) < Len(request_q[c]) =>
                  \/ request_q'[c] = Tail(request_q[c])
                  \/ request_q'[c] = <<>> /\ child'[c].state = "reaped"
            /\ response_q'[c] # response_q[c] /\ response_q'[c] # <<>> =>
                  /\ response_q[c] = <<>>
                  /\ \/ /\ request_q[c] # <<>>
                        /\ response_q'[c] = <<Answer(Head(request_q[c]))>>
                        /\ request_q'[c] = Tail(request_q[c])
                     \/ /\ child[c].state = "running"
                        /\ response_q'[c] = <<Answer(child[c].cur)>>]_vars
    /\ [][\A t \in Tasks :
            (pc[t] = "take" /\ pc'[t] = "get") =>
                LET p == workers'[held'[t]] IN
                /\ response_q'[p.response_queue] = <<>>
                /\ Len(request_q'[p.request_queue]) = 1
                /\ request_q'[p.request_queue][1].val = t]_vars
    /\ [][\A t \in Tasks :
            (pc[t] = "get" /\ pc'[t] = "done") =>
                LET p == workers[held[t]] IN
                /\ response_q[p.response_queue] = <<Msg("Result", t)>>
                /\ response_q'[p.response_queue] = <<>>]_vars
    /\ [][(callerPc = "init_wait" /\ valid(HandshakeWorker)
              /\ Len(response_q'[HandshakeWorker.response_queue])
                   < Len(response_q[HandshakeWorker.response_queue])) =>
            /\ response_q[HandshakeWorker.response_queue] = <<Pong>>
            /\ callerPc' # "idle"]_vars

\* one child has served both choices one after the other: each dispatch
\* got the measurement of its own choice and no Process was created since
\* the pool was initialized
C11_Witness ==
    /\ Len(devices) = 1
    /\ nextPid = genStart + 1
    /\ workers[1].process = genStart
    /\ pc[1] = "done" /\ ret[1] = Measured(1)
    /\ pc[2] = "done" /\ ret[2] = Measured(2)

\* the fields clear() resets are all None
Cleared(p) ==
    /\ p.process = NoneHandle
    /\ p.request_queue = NoneHandle
    /\ p.response_queue = NoneHandle

\* get() called by target(t) leaves the poll loop by raising
GetFails(t) == pc[t] \in {"get", "check"} /\ pc'[t] \in {"done", "raised"}
                 /\ ~(pc[t] = "get" /\ pc'[t] = "done")

\* C12: get() signals failure only from the exit-code check that follows
\* a timed-out poll, and only when the child has exited; the handles of
\* the worker are then all cleared and valid() is false.  While the exit
\* code is None the timed-out poll is followed by another poll, nothing
\* is signalled and the handles stay.  When get() returns a value the
\* handles are unchanged.  The same holds for the get() calls of the
\* pool's initialize().
C12_GetFailsOnlyOnExit ==
    /\ [][\A t \in Tasks : GetFails(t) =>
            LET w == held[t] IN
            /\ pc[t] = "check"
            /\ valid(workers[w])
            /\ child[workers[w].process].state = "exited"
            /\ Cleared(workers'[w]) /\ ~valid(workers'[w])]_vars
    /\ [][\A t \in Tasks :
            (pc[t] = "check" /\ pc'[t] # "check"
               /\ Live(workers[held[t]].process)) =>
                /\ pc'[t] = "get"
                /\ held'[t] = held[t]
                /\ workers'[held[t]] = workers[held[t]]]_vars
    /\ [][\A t \in Tasks :
            (pc[t] = "get" /\ pc'[t] = "done") =>
                /\ valid(workers[held[t]])
                /\ workers'[held[t]] = workers[held[t]]]_vars
    /\ [][(callerPc \in {"init_wait", "init_check"}
             /\ lastCall' # lastCall /\ lastCall'.outcome = "raised") =>
            /\ callerPc = "init_check"
            /\ child[HandshakeWorker.process].state = "exited"
            /\ \E w \in Idle : workers[w] = HandshakeWorker
                               /\ Cleared(workers'[w])]_vars
    /\ [][(callerPc = "init_check" /\ callerPc' # callerPc
             /\ Live(HandshakeWorker.process)) =>
            /\ callerPc' = "init_wait"
            /\ workers' = workers]_vars
    /\ [][(callerPc = "init_wait" /\ callerPc' \notin {"init_wait", "init_check"})
            => workers' = workers]_vars

\* one get() has signalled failure for a child that exited, its worker is
\* cleared, while another get() has polled in vain a child that is still
\* running its benchmark
C12_Witness ==
    \E t, u \in Tasks :
        /\ pc[t] = "done" /\ ret[t] = INF
        /\ \E w \in Idle : lastInf[w] /\ Cleared(workers[w])
        /\ pc[u] = "check"
        /\ child[workers[held[u]].process].state = "running"


\* put() appends a message to the request queue of Process c
PutOn(c) ==
    /\ Len(request_q'[c]) > Len(request_q[c])
    /\ request_q'[c][Len(request_q'[c])].kind # "None"

\* C13: put() never enqueues a message on the request queue of a worker
\* whose child process has already exited, also when the child died while
\* the worker was idle in the pool: put() makes the worker READY first.
C13_PutOnlyOnRunningChild ==
    [][\A c \in Pids : PutOn(c) => child[c].state \notin {"exited", "reaped"}]_vars


\* TuningProcess.terminate() puts the None sentinel on the request queue of
\* Process c
StopSent(c) ==
    /\ Len(request_q'[c]) > Len(request_q[c])
    /\ request_q'[c][Len(request_q'[c])].kind = "None"

\* terminate() of a pool that has a dispatcher gets past executor.shutdown()
ShutdownDone == callerPc = "idle" /\ executor # NoneHandle /\ executor' = NoneHandle

\* benchmark() passes its asserts and submits the batch
BatchAccepted == callerPc = "idle" /\ callerPc' = "bench_collect"

\* C14: terminate() gets past executor.shutdown() only when no dispatch is
\* in flight or submitted, and every worker of the pool is then in the
\* idle queue it iterates over; the None sentinel is put only on workers
\* without an unanswered request; after terminate() the pool has neither
\* workers nor dispatcher, benchmark() is accepted only by a pool that has
\* both, and only an initialize() that returns normally gives it both.
C14_TerminateAfterDrain ==
    /\ [][ShutdownDone =>
            /\ Quiescent
            /\ HeldWorkers = {}
            /\ Len(processes.queue) = Len(devices)
            /\ Cardinality(Idle) = Len(devices)]_vars
    /\ [][\A c \in Pids : StopSent(c) =>
            /\ Quiescent
            /\ Serving(c) = {}]_vars
    /\ [](Terminated => ~PoolUp /\ processes.none)
    /\ [][BatchAccepted => PoolUp]_vars
    /\ [][(~PoolUp /\ PoolUp') =>
            lastCall' = [op |-> "initialize", outcome |-> "ok"]]_vars


\* the pool's initialize() is called and returns in the same step
InitializeReturnsAtOnce ==
    /\ callerPc = "idle" /\ callerPc' = "idle"
    /\ lastCall'.op = "initialize"
    /\ lastCall' # lastCall

\* C15: (pool) initialize() on a pool that has workers and dispatcher
\* returns normally and changes nothing of the pool, its workers, the
\* child processes and their queues; it creates workers only when the
\* pool has neither.  (worker) put() on a worker that is valid() leaves
\* all workers and every Process as they are; a Process is created only
\* for a worker that is not valid(), and the handles of a valid() worker
\* are never assigned anew.
C15_InitializeIdempotent ==
    /\ [][(InitializeReturnsAtOnce /\ PoolUp) =>
            /\ lastCall'.outcome = "ok"
            /\ UNCHANGED <<poolVars, childVars, taskVars>>]_vars
    /\ [][(callerPc = "idle" /\ callerPc' \in {"init_spawn", "init_finish"}) =>
            processes.none /\ executor = NoneHandle]_vars
    /\ [][\A t \in Tasks :
            (pc[t] = "take" /\ pc'[t] = "get" /\ valid(workers[held'[t]])) =>
                /\ workers' = workers
                /\ nextPid' = nextPid
                /\ child' = child]_vars
    /\ [][nextPid' # nextPid =>
            /\ nextPid' = nextPid + 1
            /\ \E w \in WorkerIds :
                  /\ ~valid(workers[w])
                  /\ workers'[w].process = nextPid
                  /\ \A x \in WorkerIds \ {w} : workers'[x] = workers[x]]_vars

\* initialize() was called again on the first pool after a batch it had
\* measured: the pool is as it was and no further Process was created
C15_Witness ==
    /\ lastCall = [op |-> "initialize", outcome |-> "ok"]
    /\ PoolUp
    /\ genStart = 1
    /\ nextPid = Len(devices) + 1
    /\ \A t \in Tasks : pc[t] = "done" /\ ret[t] = Measured(t)


\* child processes that are running
LiveChildren == {c \in Pids : Live(c)}

\* C16: over any sequence of initialize() and terminate() calls of the
\* pool the exit handler is registered at most once, and only while
\* EXIT_HANDLER_REGISTERED is false; and once the parent process has
\* exited, its handler having run if one was registered, no child process
\* is left running.
C16_ExitHandlerLeavesNoChild ==
    /\ [](atexit_handlers <= 1)
    /\ [][atexit_handlers' # atexit_handlers =>
            ~EXIT_HANDLER_REGISTERED /\ EXIT_HANDLER_REGISTERED']_vars
    /\ [](parent = "exited" => LiveChildren = {})


\* C17: whenever the caller can enter the pool's initialize(), after any
\* calls of initialize(), benchmark() and terminate() and also after an
\* initialize() that raised part-way, self.processes is None exactly when
\* self.executor is None, and the assert of initialize() never fails.
C17_InitializeAssertHolds ==
    /\ callerPc = "idle" => (processes.none <=> executor = NoneHandle)
    /\ lastCall # [op |-> "initialize", outcome |-> "assert"]


\* the workers whose process field is Process c
Owners(c) == {w \in WorkerIds : workers[w].process = c}

\* C18: a worker's process field is cleared or assigned anew only when
\* it is None or its child is not running (it never started, or it has
\* exited); hence every running child is the process of exactly one
\* worker, and there are never more running children than workers.
C18_NoLiveChildDropped ==
    /\ [][\A w \in WorkerIds :
            (workers[w].process # NoneHandle
               /\ workers'[w].process # workers[w].process) =>
                ~Live(workers[w].process)]_vars
    /\ [](\A c \in LiveChildren : Cardinality(Owners(c)) = 1)
    /\ [](Cardinality(LiveChildren) <= Len(devices))

\* in a pool of two workers one child has exited and was collected by
\* get(), its worker has a new child, and both workers' children run
C18_Witness ==
    /\ Len(devices) = 2
    /\ Cardinality(LiveChildren) = 2
    /\ \E c \in Pids : c >= genStart /\ child[c].state = "reaped"
    /\ \E w \in WorkerIds : valid(workers[w])
                           /\ workers[w].process >= genStart + 2
                           /\ Live(workers[w].process)


\* C19: get() never signals a dead worker while a response of the child
\* is on the response queue: whatever the order of the parent's timed-out
\* poll, the child's put and the child's exit, a response the child has
\* put is returned by get(), for target() and for initialize().
C19_ResponseNeverDiscarded ==
    /\ [][\A t \in Tasks :
            (pc[t] = "check" /\ pc'[t] \in {"done", "raised"}) =>
                response_q[workers[held[t]].response_queue] = <<>>]_vars
    /\ [][(callerPc = "init_check" /\ callerPc' = "idle") =>
            response_q[HandshakeWorker.response_queue] = <<>>]_vars


\* ------------------------------------------- get_device_list() on its own
\* every value of CUDA_VISIBLE_DEVICES with up to MaxDevices + 1 fields
FieldLists == UNION {[1..k -> Fields] : k \in 1..(MaxDevices + 1)}
Environs == {Unset} \cup {Visible(f) : f \in FieldLists}

AllInputs ==
    {Input(multi, count, env) :
        multi \in BOOLEAN, count \in 0..MaxDevices, env \in Environs}

InitDeviceList == Constructed /\ \E i \in AllInputs : Reads(i)

\* initialize() up to the end of `for device in devices`
NextDeviceList == initialize \/ initialize_spawn

DeviceListSpec == InitDeviceList /\ [][NextDeviceList]_vars

\* get_device_list() has returned its list to initialize()
Listed == callerPc \in {"init_spawn", "init_wait", "init_finish"}

\* get_device_list() has raised
ListFailed == callerPc = "idle"
              /\ lastCall = [op |-> "initialize", outcome |-> "raised"]

\* initialize() has left `for device in devices`
SpawnLoopOver == callerPc \in {"init_wait", "init_finish"}

\* the list is the allow-list, field by field and in the same order
Verbatim ==
    /\ Len(devices) = Len(environ.fields)
    /\ \A i \in 1..Len(devices) : devices[i] = int(environ.fields[i])

\* one TuningProcess per element of the list, in its order
OneWorkerPerElement ==
    /\ Len(processes.queue) = Len(devices)
    /\ \A i \in 1..Len(devices) :
          workers[processes.queue[i]].device = devices[i]

\* C20 as stated: with an allow-list the call returns only a list whose
\* every index is one of the device_count devices, and fails otherwise.
C20_DeviceListChecked ==
    /\ ~autotune_multi_device =>
          ~ListFailed /\ (Listed => devices = <<NoneDevice>>)
    /\ (autotune_multi_device /\ environ.set) =>
          (Listed => /\ Verbatim
                     /\ \A i \in 1..Len(devices) :
                           devices[i] \in 0..(device_count - 1))
    /\ (autotune_multi_device /\ ~environ.set) =>
          ~ListFailed /\ (Listed => devices = range(device_count))
    /\ SpawnLoopOver => OneWorkerPerElement

\* every field of the allow-list is an integer literal and there are no
\* more fields than devices
Accepted ==
    /\ \A i \in 1..Len(environ.fields) : IsIntLiteral(environ.fields[i])
    /\ Len(environ.fields) <= device_count

\* C20 as amended: with an allow-list the call returns the list parsed
\* field by field, in the same order, when every field is an integer
\* literal and the list is no longer than device_count, and fails
\* otherwise; the indices themselves are not compared with the devices.
\* Without multi-device tuning the result is [None], without allow-list
\* 0..count-1, and the pool creates one worker per element.
C20_DeviceListLengthChecked ==
    /\ ~autotune_multi_device =>
          ~ListFailed /\ (Listed => devices = <<NoneDevice>>)
    /\ (autotune_multi_device /\ environ.set /\ Accepted) =>
          ~ListFailed /\ (Listed => Verbatim)
    /\ (autotune_multi_device /\ environ.set /\ ~Accepted) => ~Listed
    /\ (autotune_multi_device /\ ~environ.set) =>
          /\ ~ListFailed
          /\ Listed => /\ Len(devices) = device_count
                       /\ \A i \in 1..Len(devices) : devices[i] = i - 1
    /\ SpawnLoopOver => OneWorkerPerElement

\* the allow-list " 1,7" on a machine reporting at least two devices: the
\* pool has a worker for device 1 and one for device 7, in that order
C20_Witness ==
    /\ environ = Visible(<<" 1", "7">>)
    /\ autotune_multi_device
    /\ SpawnLoopOver
    /\ devices = <<1, 7>>
    /\ OneWorkerPerElement

====
